---------------------------- MODULE Spec2Model ----------------------------
(***************************************************************************)
(* Type inference from Purview column metadata to Azure AI Search field    *)
(* types.  Three classifiers are modelled:                                 *)
(*   - purview_get_schema.map_purview_to_search        (declared type)     *)
(*   - purview_schema_inference.map_purview_to_search  (declared type)     *)
(*   - PurviewDataSourceAnalyzer._map_python_type_to_azure_search          *)
(* and the builder PurviewDataSourceAnalyzer._infer_column_types.          *)
(*                                                                         *)
(* Python strings are TLA+ strings (Len, \o and SubSeq act on them), a     *)
(* Python exception is the result "raise <ExceptionName>", an optional     *)
(* value is a sequence of length 0 (None) or 1.                            *)
(***************************************************************************)
EXTENDS Integers, Sequences, FiniteSets, TLC

VARIABLES
    pc,             \* the call about to be made, then the callee that returned
    purview_type,   \* argument of map_purview_to_search: <<>> (None) or <<string>>
    python_type,    \* argument of _map_python_type_to_azure_search
    is_collection,  \* argument of _map_python_type_to_azure_search
    sample_values,  \* argument of _map_python_type_to_azure_search: <<>> (None) or <<list>>
    df,             \* argument of _infer_column_types: the DataFrame
    result,         \* value returned by (or exception raised from) a classifier
    column_types,   \* value returned by _infer_column_types
    column_attrs,   \* the attributes of the column entities of a catalog table
    columns_info,   \* analyze_table_schema: the column_info list it collects
    callers,        \* independent callers of the classifier and of the builder
    retrieval,      \* analyze_table_schema: what the data source of the table gives
    search          \* purview_get_schema.main: the asset search and what comes of it

vars == <<pc, purview_type, python_type, is_collection, sample_values, df,
          result, column_types, column_attrs, columns_info, callers, retrieval, search>>

-----------------------------------------------------------------------------
(* AzureSearchDataType: the enum members, each with its wire token.        *)

EDM_STRING == "Edm.String"
EDM_INT32 == "Edm.Int32"
EDM_INT64 == "Edm.Int64"
EDM_DOUBLE == "Edm.Double"
EDM_BOOLEAN == "Edm.Boolean"
EDM_DATETIME_OFFSET == "Edm.DateTimeOffset"
EDM_GEOGRAPHY_POINT == "Edm.GeographyPoint"
EDM_COMPLEX_TYPE == "Edm.ComplexType"
COLLECTION_EDM_STRING == "Collection(Edm.String)"
COLLECTION_EDM_INT32 == "Collection(Edm.Int32)"
COLLECTION_EDM_INT64 == "Collection(Edm.Int64)"
COLLECTION_EDM_DOUBLE == "Collection(Edm.Double)"
COLLECTION_EDM_DATETIME_OFFSET == "Collection(Edm.DateTimeOffset)"
COLLECTION_EDM_GEOGRAPHY_POINT == "Collection(Edm.GeographyPoint)"
COLLECTION_EDM_COMPLEX_TYPE == "Collection(Edm.ComplexType)"

\* The members of the enum of purview_get_schema.py and purview_schema_inference.py.
AzureSearchDataType_declared ==
    { EDM_STRING, EDM_INT32, EDM_INT64, EDM_DOUBLE, EDM_BOOLEAN, EDM_DATETIME_OFFSET,
      COLLECTION_EDM_STRING, COLLECTION_EDM_INT32, COLLECTION_EDM_INT64,
      COLLECTION_EDM_DOUBLE, COLLECTION_EDM_DATETIME_OFFSET }

\* The members of the enum of purview_schema_index_hint.py.
AzureSearchDataType ==
    AzureSearchDataType_declared \cup
    { EDM_GEOGRAPHY_POINT, EDM_COMPLEX_TYPE,
      COLLECTION_EDM_GEOGRAPHY_POINT, COLLECTION_EDM_COMPLEX_TYPE }

RaiseAttributeError == "raise AttributeError"

None == <<>>
Some(v) == <<v>>

-----------------------------------------------------------------------------
(* Python string primitives.                                               *)

UpperAlpha == "ABCDEFGHIJKLMNOPQRSTUVWXYZ"
LowerAlpha == "abcdefghijklmnopqrstuvwxyz"

\* str.lower() on one character (ASCII).
LowerChar(c) ==
    IF \E i \in 1..Len(UpperAlpha) : SubSeq(UpperAlpha, i, i) = c
    THEN LET i == CHOOSE j \in 1..Len(UpperAlpha) : SubSeq(UpperAlpha, j, j) = c
         IN  SubSeq(LowerAlpha, i, i)
    ELSE c

\* str.lower()
RECURSIVE lower(_)
lower(t) ==
    IF Len(t) = 0 THEN ""
    ELSE LowerChar(SubSeq(t, 1, 1)) \o lower(SubSeq(t, 2, Len(t)))

\* x in t, for strings: x occurs in t as a contiguous substring.
In(x, t) == \E i \in 1..(Len(t) - Len(x) + 1) : SubSeq(t, i, i + Len(x) - 1) = x

\* any(x in t for x in keys)
AnyIn(keys, t) == \E x \in keys : In(x, t)

-----------------------------------------------------------------------------
(* purview_get_schema.map_purview_to_search                                *)

\* get_schema_classify without the branch of the fixed-precision types
get_schema_classify_no_fixed_precision(t) ==
    IF AnyIn({"varchar", "nvarchar", "char", "text", "ntext", "uniqueidentifier"}, t)
    THEN EDM_STRING
    ELSE IF In("bit", t)
    THEN EDM_BOOLEAN
    ELSE IF AnyIn({"tinyint", "smallint", "int"}, t)
    THEN EDM_INT32
    ELSE IF In("bigint", t)
    THEN EDM_INT64
    ELSE IF AnyIn({"float", "real"}, t)
    THEN EDM_DOUBLE
    ELSE EDM_STRING

\* get_schema_classify with the test of "bit" moved behind the integers
get_schema_classify_bit_late(t) ==
    IF AnyIn({"varchar", "nvarchar", "char", "text", "ntext", "uniqueidentifier"}, t)
    THEN EDM_STRING
    ELSE IF AnyIn({"tinyint", "smallint", "int"}, t)
    THEN EDM_INT32
    ELSE IF In("bigint", t)
    THEN EDM_INT64
    ELSE IF In("bit", t)
    THEN EDM_BOOLEAN
    ELSE IF AnyIn({"float", "real"}, t)
    THEN EDM_DOUBLE
    ELSE IF AnyIn({"decimal", "numeric", "money", "smallmoney"}, t)
    THEN EDM_DOUBLE
    ELSE EDM_STRING

\* get_schema_classify with the textual check moved behind the numeric ones
get_schema_classify_textual_late(t) ==
    IF In("bit", t)
    THEN EDM_BOOLEAN
    ELSE IF AnyIn({"tinyint", "smallint", "int"}, t)
    THEN EDM_INT32
    ELSE IF In("bigint", t)
    THEN EDM_INT64
    ELSE IF AnyIn({"float", "real"}, t)
    THEN EDM_DOUBLE
    ELSE IF AnyIn({"decimal", "numeric", "money", "smallmoney"}, t)
    THEN EDM_DOUBLE
    ELSE EDM_STRING

\* the checks of the function on the lowered string t, in source order
get_schema_classify(t) ==
    IF AnyIn({"varchar", "nvarchar", "char", "text", "ntext", "uniqueidentifier"}, t)
    THEN EDM_STRING
    ELSE IF In("bit", t)
    THEN EDM_BOOLEAN
    ELSE IF AnyIn({"tinyint", "smallint", "int"}, t)
    THEN EDM_INT32
    ELSE IF In("bigint", t)
    THEN EDM_INT64
    ELSE IF AnyIn({"float", "real"}, t)
    THEN EDM_DOUBLE
    ELSE IF AnyIn({"decimal", "numeric", "money", "smallmoney"}, t)
    THEN EDM_DOUBLE
    ELSE EDM_STRING

\* t = (purview_type or "").lower(): None and "" both become ""
get_schema_map_purview_to_search(pt) ==
    get_schema_classify(lower(IF pt = None \/ pt = Some("") THEN "" ELSE pt[1]))

\* 'if guid', 'if name and dtype': the value is neither None nor empty
truthy(v) == v # None /\ v[1] # ""

\* search_data_assets: the assets of a 200 response that has some; on the
\* other paths the function ends without a return statement and gives None
search_data_assets(response) ==
    IF response.status_code = 200
    THEN IF Len(response.value) > 0 THEN Some(response.value) ELSE None
    ELSE None

\* main: the search_fields of one asset, from the columns of its schema
asset_search_fields(asset) ==
    { [name |-> asset.columns[i].name[1],
       type |-> get_schema_map_purview_to_search(asset.columns[i].data_type)] :
        i \in { k \in 1..Len(asset.columns) :
                  truthy(asset.columns[k].name) /\ truthy(asset.columns[k].data_type) } }

\* main: 'for asset in assets' over what search_data_assets returned; an asset
\* without GUID is skipped
main_tables(assets) ==
    LET with_guid == SelectSeq(assets, LAMBDA asset : truthy(asset.id))
    IN  [i \in 1..Len(with_guid) |->
            [guid |-> with_guid[i].id[1], search_fields |-> asset_search_fields(with_guid[i])]]

-----------------------------------------------------------------------------
(* purview_schema_inference.map_purview_to_search                          *)

\* inference_classify without the branch of the date/time types
inference_classify_no_temporal(t) ==
    IF AnyIn({"char", "text", "string"}, t)
    THEN EDM_STRING
    ELSE IF AnyIn({"bigint", "int64"}, t)
    THEN EDM_INT64
    ELSE IF AnyIn({"int", "smallint", "tinyint"}, t)
    THEN EDM_INT32
    ELSE IF AnyIn({"float", "double", "real", "decimal", "numeric", "money"}, t)
    THEN EDM_DOUBLE
    ELSE IF AnyIn({"bit", "bool", "boolean"}, t)
    THEN EDM_BOOLEAN
    ELSE EDM_STRING

inference_classify(t) ==
    IF AnyIn({"char", "text", "string"}, t)
    THEN EDM_STRING
    ELSE IF AnyIn({"bigint", "int64"}, t)
    THEN EDM_INT64
    ELSE IF AnyIn({"int", "smallint", "tinyint"}, t)
    THEN EDM_INT32
    ELSE IF AnyIn({"float", "double", "real", "decimal", "numeric", "money"}, t)
    THEN EDM_DOUBLE
    ELSE IF AnyIn({"bit", "bool", "boolean"}, t)
    THEN EDM_BOOLEAN
    ELSE IF AnyIn({"date", "time", "datetime"}, t)
    THEN EDM_DATETIME_OFFSET
    ELSE EDM_STRING

\* t = purview_type.lower(): None has no attribute lower
inference_map_purview_to_search(pt) ==
    IF pt = None THEN RaiseAttributeError ELSE inference_classify(lower(pt[1]))

-----------------------------------------------------------------------------
(* Python values.  A value is a record whose field type is the name of its *)
(* runtime type.  A Python int is unbounded: it is kept as hi * 2^16 + lo  *)
(* with 0 <= lo < 2^16, so that values beyond 32 bits are exact.           *)

Limb == 2^16

PyInt(hi, lo) == [type |-> "int", hi |-> hi, lo |-> lo]
\* the int n, for n small enough to write down here
IntOf(n) == PyInt(n \div Limb, n % Limb)
Str(s) == [type |-> "str", s |-> s]
Float(f) == [type |-> "float", f |-> f]
Dec(d) == [type |-> "Decimal", d |-> d]
Bool(b) == [type |-> "bool", b |-> b]
PyNone == [type |-> "NoneType"]
NaN == Float("nan")
NaT == [type |-> "NaTType"]
NA == [type |-> "NAType"]
Timestamp == [type |-> "Timestamp", ts |-> "2024-01-01"]
List(items) == [type |-> "list", items |-> items]
NdArray(items) == [type |-> "ndarray", items |-> items]
\* a numpy integer scalar: the same number under another runtime type
NpInt(width, v) == [type |-> width, hi |-> v.hi, lo |-> v.lo]

\* a <= b on ints
IntLeq(a, b) == a.hi < b.hi \/ (a.hi = b.hi /\ a.lo <= b.lo)

Range(seq) == { seq[i] : i \in 1..Len(seq) }

\* max(values), min(values) on a non-empty list of ints
max(values) == CHOOSE v \in Range(values) : \A w \in Range(values) : IntLeq(w, v)
min(values) == CHOOSE v \in Range(values) : \A w \in Range(values) : IntLeq(v, w)

\* the literals -2147483648 and 2147483647
INT32_MIN == PyInt(-32768, 0)
INT32_MAX == PyInt(32767, 65535)

-----------------------------------------------------------------------------
(* PurviewDataSourceAnalyzer._map_python_type_to_azure_search              *)
(* A type is named as the source names it: "int", "np.int32", "Decimal".   *)

\* map_collection whose last branch returns the scalar String
map_collection_scalar_fallback(ptype) ==
    IF ptype \in {"str", "object"} THEN COLLECTION_EDM_STRING
    ELSE IF ptype \in {"int", "np.int32"} THEN COLLECTION_EDM_INT32
    ELSE IF ptype \in {"np.int64"} THEN COLLECTION_EDM_INT64
    ELSE IF ptype \in {"float", "np.float64", "np.float32"} THEN COLLECTION_EDM_DOUBLE
    ELSE IF ptype \in {"datetime", "date"} THEN COLLECTION_EDM_DATETIME_OFFSET
    ELSE EDM_STRING

\* the branch taken when is_collection
map_collection(ptype) ==
    IF ptype \in {"str", "object"} THEN COLLECTION_EDM_STRING
    ELSE IF ptype \in {"int", "np.int32"} THEN COLLECTION_EDM_INT32
    ELSE IF ptype \in {"np.int64"} THEN COLLECTION_EDM_INT64
    ELSE IF ptype \in {"float", "np.float64", "np.float32"} THEN COLLECTION_EDM_DOUBLE
    ELSE IF ptype \in {"datetime", "date"} THEN COLLECTION_EDM_DATETIME_OFFSET
    ELSE COLLECTION_EDM_STRING

\* map_int_by_range without the test of the lower end of the range
map_int_by_range_max_only(values) ==
    IF Len(values) > 0
    THEN IF IntLeq(max(values), INT32_MAX) THEN EDM_INT32 ELSE EDM_INT64
    ELSE EDM_INT32

\* the branch of int and np.int32: do the sample values fit Int32
map_int_by_range(values) ==
    IF Len(values) > 0
    THEN IF IntLeq(INT32_MIN, min(values)) /\ IntLeq(max(values), INT32_MAX)
         THEN EDM_INT32
         ELSE EDM_INT64
    ELSE EDM_INT32

\* the scalar branches
map_scalar(ptype, values) ==
    IF ptype = "str" THEN EDM_STRING
    ELSE IF ptype \in {"int", "np.int32"} THEN map_int_by_range(values)
    ELSE IF ptype \in {"np.int64"} THEN EDM_INT64
    ELSE IF ptype \in {"float", "np.float64", "np.float32", "Decimal"} THEN EDM_DOUBLE
    ELSE IF ptype = "bool" THEN EDM_BOOLEAN
    ELSE IF ptype \in {"datetime", "date"} THEN EDM_DATETIME_OFFSET
    ELSE EDM_STRING

\* map_python_type_to_azure_search without the branch of the collections
map_python_type_scalar_only(ptype, coll, samples) ==
    map_scalar(ptype, IF samples = None THEN <<>> ELSE samples[1])

\* samples is None or Some(list): None is replaced by the empty list
map_python_type_to_azure_search(ptype, coll, samples) ==
    LET values == IF samples = None THEN <<>> ELSE samples[1]
    IN  IF coll THEN map_collection(ptype) ELSE map_scalar(ptype, values)

-----------------------------------------------------------------------------
(* pandas: the parts of Series and of pandas.api.types the builder uses.   *)

\* Series.isnull() on one cell
isnull(v) == v \in {PyNone, NaN, NaT, NA}

\* Series.dropna()
dropna(values) == SelectSeq(values, LAMBDA v : ~isnull(v))

\* Series.tail(n) in the place of Series.head(n)
head_last(values, n) ==
    SubSeq(values, IF Len(values) < n THEN 1 ELSE Len(values) - n + 1, Len(values))

\* Series.head(n)
head(values, n) == SubSeq(values, 1, IF Len(values) < n THEN Len(values) ELSE n)

\* Series.tolist(): numpy scalars become Python scalars
tolist_item(v) ==
    IF v.type \in {"np.int8", "np.int16", "np.int32", "np.int64"}
    THEN PyInt(v.hi, v.lo)
    ELSE v

tolist(values) == [i \in 1..Len(values) |-> tolist_item(values[i])]

is_string_dtype(dtype) == dtype \in {"object", "string"}
is_integer_dtype(dtype) == dtype \in {"int8", "int16", "int32", "int64", "Int64"}
is_float_dtype(dtype) == dtype \in {"float32", "float64"}
is_bool_dtype(dtype) == dtype \in {"bool", "boolean"}
is_datetime64_any_dtype(dtype) == dtype \in {"datetime64[ns]"}

\* isinstance(v, (list, tuple, np.ndarray))
is_container(v) == v.type \in {"list", "tuple", "ndarray"}

-----------------------------------------------------------------------------
(* PurviewDataSourceAnalyzer._infer_column_types                           *)

\* number of sample values kept: head(10)
SampleSize == 10

\* nullable with Series.isnull().all() in the place of any()
infer_nullable_all(values) ==
    Len(values) > 0 /\ \A i \in 1..Len(values) : isnull(values[i])

\* nullable: series.isnull().any()
infer_nullable(values) == \E i \in 1..Len(values) : isnull(values[i])

\* is_collection looking at every non-null value
infer_is_collection_any(non_null_values) ==
    \E i \in 1..Len(non_null_values) : is_container(non_null_values[i])

\* is_collection: the first non-null value is a list, a tuple or an array
infer_is_collection(non_null_values) ==
    IF Len(non_null_values) > 0 THEN is_container(non_null_values[1]) ELSE FALSE

\* infer_collection_python_type looking for the first non-empty container
infer_collection_python_type_non_empty(non_null_values) ==
    LET filled == SelectSeq(non_null_values,
                            LAMBDA v : is_container(v) /\ Len(v.items) > 0)
    IN  IF Len(filled) > 0 THEN filled[1].items[1].type ELSE "str"

\* python_type of a collection column: from the first non-null value
infer_collection_python_type(non_null_values) ==
    LET first_collection == non_null_values[1]
    IN  IF first_collection.type = "str"
        THEN "str"      \* len() and [0] of a str: a str, or the default
        ELSE IF Len(first_collection.items) > 0
        THEN first_collection.items[1].type
        ELSE "str"

\* python_type of a scalar column: from the dtype of the Series
infer_dtype_python_type(dtype) ==
    IF is_string_dtype(dtype) THEN "str"
    ELSE IF is_integer_dtype(dtype)
    THEN IF dtype = "int32" THEN "int" ELSE "np.int64"
    ELSE IF is_float_dtype(dtype) THEN "float"
    ELSE IF is_bool_dtype(dtype) THEN "bool"
    ELSE IF is_datetime64_any_dtype(dtype) THEN "datetime"
    ELSE "str"

\* one iteration of the loop over df.columns
infer_column(series) ==
    LET non_null_values == dropna(series.values)
        samples == tolist(head(non_null_values, SampleSize))
        nullable == infer_nullable(series.values)
        coll == infer_is_collection(non_null_values)
        ptype == IF coll /\ Len(non_null_values) > 0
                 THEN infer_collection_python_type(non_null_values)
                 ELSE infer_dtype_python_type(series.dtype)
    IN  [ column_name |-> series.name,
          python_type |-> ptype,
          nullable |-> nullable,
          is_collection |-> coll,
          azure_search_type |-> map_python_type_to_azure_search(ptype, coll, Some(samples)),
          sample_values |-> samples ]

\* infer_column_types building its list back to front
infer_column_types_reversed(frame) ==
    [i \in 1..Len(frame) |-> infer_column(frame[Len(frame) + 1 - i])]

infer_column_types(frame) == [i \in 1..Len(frame) |-> infer_column(frame[i])]

-----------------------------------------------------------------------------
(* PurviewDataSourceAnalyzer.analyze_table_schema without a connection:     *)
(* the column_info list and the DataFrame made from it. The attributes of   *)
(* a column entity are a record of optional values: <<>> where the catalog  *)
(* has no such key (or holds null), <<v>> where it holds v.                 *)

\* the column_info dict of one column: .get("isNullable", True)
column_info_of(attrs) ==
    [ name |-> attrs.name,
      data_type |-> attrs.dataType,
      is_nullable |-> IF attrs.isNullable = None THEN Some(TRUE) ELSE attrs.isNullable ]

\* the loop over the column references: a column whose entity cannot be
\* fetched is skipped
fetch_columns_info(attrs) ==
    LET fetched == SelectSeq(attrs, LAMBDA a : ~a.raises)
    IN  [i \in 1..Len(fetched) |-> column_info_of(fetched[i])]

\* the dtype a column of the metadata frame is cast to, from its lowered type
metadata_dtype(data_type) ==
    IF In("int", data_type) \/ In("integer", data_type) THEN "Int64"
    ELSE IF In("float", data_type) \/ In("double", data_type)
            \/ In("decimal", data_type) THEN "float64"
    ELSE IF In("bool", data_type) \/ In("bit", data_type) THEN "boolean"
    ELSE IF In("date", data_type) \/ In("time", data_type) THEN "datetime64[ns]"
    ELSE "string"

\* col_info.get("data_type", "").lower() on a column whose data_type is None
metadata_raises(info) ==
    \E i \in 1..Len(info) : info[i].data_type = None

\* 'if col["name"]': the name is neither None nor empty
is_named(col) == col.name # None /\ col.name[1] # ""

\* _create_dataframe_from_metadata, when no .lower() raises: the empty frame of
\* the named columns, each with the dtype of its declared type
create_dataframe_from_metadata(info) ==
    LET named == SelectSeq(info, is_named)
    IN  [i \in 1..Len(named) |->
            [name |-> named[i].name[1],
             dtype |-> metadata_dtype(lower(named[i].data_type[1])),
             values |-> <<>>]]

-----------------------------------------------------------------------------
(* Declared type strings handed to the mappers: None, or up to MaxTokens   *)
(* tokens written one after the other.                                     *)

MaxTokens == 2

Tokens ==
    { "char", "varchar", "nvarchar", "text", "ntext", "uniqueidentifier", "string",
      "bit", "bool", "boolean",
      "bigint", "int64",
      "tinyint", "smallint", "int",
      "float", "real", "double", "decimal", "numeric", "money", "smallmoney",
      "date", "time", "datetime", "datetimeoffset",
      "BIGINT", "NVARCHAR", "VarChar", "Text",
      "(255)", "(10,2)", "xml", " " }

RECURSIVE TokenStrings(_)
TokenStrings(n) ==
    IF n = 0 THEN {""}
    ELSE LET shorter == TokenStrings(n - 1)
         IN  shorter \cup { s \o k : s \in shorter, k \in Tokens }

DeclaredTypes == {None} \cup { Some(s) : s \in TokenStrings(MaxTokens) }

-----------------------------------------------------------------------------
(* Evidence handed to _map_python_type_to_azure_search: a type, the        *)
(* collection flag and the sample values (None when the caller omits       *)
(* them).  The integer types come with lists of up to MaxSamples ints.     *)

MaxSamples == 3

PythonTypes ==
    { "str", "object", "int", "np.int32", "np.int64", "float", "np.float64",
      "np.float32", "Decimal", "bool", "datetime", "date", "Timestamp", "dict",
      "NoneType" }

IntegerTypes == { "int", "np.int32", "np.int64" }

\* 1, 2, the two ends of the signed 32-bit range, their neighbours outside
\* it, and 3000000000
IntSamples ==
    { IntOf(1), IntOf(2), INT32_MIN, INT32_MAX,
      PyInt(-32769, 65535), PyInt(32768, 0), PyInt(45776, 24064) }

SeqsUpTo(S, n) == UNION { [1..k -> S] : k \in 0..n }

SamplesFor(ptype) ==
    IF ptype \in IntegerTypes
    THEN {None} \cup { Some(v) : v \in SeqsUpTo(IntSamples, MaxSamples) }
    ELSE {None, Some(<<>>), Some(<<Str("a")>>)}

-----------------------------------------------------------------------------
(* DataFrames handed to _infer_column_types: up to MaxCols columns of the  *)
(* same number of rows (at most MaxRows), at most MaxCells cells in all.   *)
(* The cells of a column are values its dtype can hold.                    *)

MaxCols == 2
MaxRows == 3
MaxCells == 3

Dtypes ==
    { "int16", "int32", "int64", "Int64", "float64", "bool", "datetime64[ns]",
      "timedelta64[ns]", "object" }

CellsOf(dtype) ==
    CASE dtype = "int16" -> { NpInt("np.int16", IntOf(1)), NpInt("np.int16", IntOf(2)) }
      [] dtype = "int32" -> { NpInt("np.int32", IntOf(n)) : n \in 1..3 }
      [] dtype = "int64" -> { NpInt("np.int64", IntOf(n)) : n \in 1..3 }
                              \cup { NpInt("np.int64", PyInt(45776, 24064)) }
      [] dtype = "Int64" -> { NpInt("np.int64", IntOf(1)),
                              NpInt("np.int64", PyInt(45776, 24064)), NA }
      [] dtype = "float64" -> { Float("1.5"), NaN }
      [] dtype = "bool" -> { Bool(TRUE), Bool(FALSE) }
      [] dtype = "datetime64[ns]" -> { Timestamp, NaT }
      [] dtype = "timedelta64[ns]" -> { [type |-> "Timedelta", td |-> "1 days"] }
      [] dtype = "object" ->
            { PyNone, Str("a"),
              List(<<Str("a"), Str("b")>>), List(<<Str("c")>>), List(<<>>),
              List(<<IntOf(1), IntOf(2)>>), List(<<PyInt(45776, 24064)>>),
              List(<<Dec("1.5")>>), NdArray(<<NpInt("np.int64", IntOf(1))>>) }

ColumnName(i) == "c" \o ToString(i)

\* the columns a frame of r rows can have at position i
ColumnsAt(i, r) ==
    UNION { { [name |-> ColumnName(i), dtype |-> d, values |-> v] :
                v \in [1..r -> CellsOf(d)] } : d \in Dtypes }

RECURSIVE FramesOf(_, _)
FramesOf(m, r) ==
    IF m = 0 THEN {<<>>}
    ELSE { Append(f, c) : f \in FramesOf(m - 1, r), c \in ColumnsAt(m, r) }

\* the shapes (columns, rows) of the frames
Shapes == { sh \in (0..MaxCols) \X (0..MaxRows) : sh[1] * sh[2] <= MaxCells }

\* frames of one nullable integer column longer than the SampleSize values
\* the builder keeps: up to MaxExtraRows rows more, row k holding k or pd.NA
MaxExtraRows == 2

LongColumns ==
    UNION { [1..n -> {"value", "NA"}] :
              n \in (SampleSize - 1)..(SampleSize + MaxExtraRows) }

LongFrame(marks) ==
    << [name |-> ColumnName(1), dtype |-> "Int64",
        values |-> [k \in 1..Len(marks) |->
                      IF marks[k] = "NA" THEN NA ELSE NpInt("np.int64", IntOf(k))]] >>

Frames ==
    UNION { FramesOf(sh[1], sh[2]) : sh \in Shapes }
        \cup { LongFrame(marks) : marks \in LongColumns }

\* the tables of a catalog: up to MaxMetaCols column entities, each with a
\* name, a declared type and a nullability flag where the catalog holds them
MaxMetaCols == 2

MetadataTypes ==
    { None } \cup
    { Some(t) : t \in { "int", "smallint", "tinyint", "bigint", "money", "numeric",
                        "real", "float", "bit", "date", "nvarchar", "xml" } }

\* what the catalog holds for one column: a column entity whose fetching
\* raises, a nameless one, or a named one with a declared type and a
\* nullability flag, where it has them
ColumnOptions ==
    { [named |-> TRUE, dataType |-> t, isNullable |-> n, raises |-> FALSE] :
        t \in MetadataTypes, n \in { None, Some(TRUE), Some(FALSE) } }
        \cup { [named |-> FALSE, dataType |-> Some("int"), isNullable |-> None,
                raises |-> r] : r \in BOOLEAN }

TableOf(options) ==
    [i \in 1..Len(options) |->
        [name |-> IF options[i].named THEN Some(ColumnName(i)) ELSE None,
         dataType |-> options[i].dataType,
         isNullable |-> options[i].isNullable,
         raises |-> options[i].raises]]

Tables ==
    { TableOf(options) :
        options \in UNION { [1..n -> ColumnOptions] : n \in 0..MaxMetaCols } }

\* the responses of the asset search: a failure, or up to MaxAssets assets,
\* each with or without a GUID and with a schema of up to MaxSearchCols
\* columns, each with or without a name and a data_type
MaxAssets == 2
MaxSearchCols == 1

SearchColumnOptions ==
    { [named |-> n, data_type |-> t] :
        n \in BOOLEAN, t \in { None, Some("bigint") } }

SearchColumns ==
    { [i \in 1..Len(options) |->
          [name |-> IF options[i].named THEN Some(ColumnName(i)) ELSE None,
           data_type |-> options[i].data_type]] :
        options \in UNION { [1..n -> SearchColumnOptions] : n \in 0..MaxSearchCols } }

AssetOptions ==
    { [has_id |-> FALSE, columns |-> <<>>] }
        \cup { [has_id |-> TRUE, columns |-> c] : c \in SearchColumns }

SearchResponses ==
    { [status_code |-> 404, value |-> <<>>] }
    \cup { [status_code |-> 200,
            value |-> [i \in 1..Len(options) |->
                          [id |-> IF options[i].has_id
                                  THEN Some("guid" \o ToString(i)) ELSE None,
                           columns |-> options[i].columns]]] :
            options \in UNION { [1..n -> AssetOptions] : n \in 0..MaxAssets } }

NoSearch == [response |-> <<>>, returned |-> None, outcome |-> "", tables |-> <<>>]

\* what the data source of a table gives: no connection information, no
\* sample (unsupported type, missing driver, connection error), or a sample
NoRetrieval == [outcome |-> "no connection info", sample |-> <<>>, tried |-> FALSE]

SampleFrames ==
    { << [name |-> "c1", dtype |-> "int32",
          values |-> <<NpInt("np.int32", IntOf(1)), NpInt("np.int32", IntOf(2))>>] >>,
      <<>> }

Retrievals ==
    { NoRetrieval, [outcome |-> "no sample", sample |-> <<>>, tried |-> FALSE] }
    \cup { [outcome |-> "sample", sample |-> f, tried |-> FALSE] : f \in SampleFrames }

\* callers that share one analyzer: each calls the classifier or the builder
\* on evidence of its own, up to MaxCalls times
MaxCallers == 2
MaxCalls == 2

CallerInputs ==
    { [kind |-> "classify", python_type |-> t, is_collection |-> c,
       sample_values |-> v, df |-> <<>>] :
        t \in {"int"}, c \in BOOLEAN,
        v \in { Some(<<IntOf(1), IntOf(2)>>), Some(<<PyInt(45776, 24064)>>) } }
    \cup
    { [kind |-> "build", python_type |-> "str", is_collection |-> FALSE,
       sample_values |-> None, df |-> f] :
        f \in { <<>>,
                << [name |-> "c1", dtype |-> "int32",
                    values |-> <<NpInt("np.int32", IntOf(1))>>] >>,
                << [name |-> "c1", dtype |-> "object",
                    values |-> <<PyNone, List(<<IntOf(1), IntOf(2)>>)>>] >>,
                << [name |-> "c1", dtype |-> "float64", values |-> <<NaN>>] >> } }

\* what a call returns to its caller: a field type, or the descriptors
caller_outcome(input) ==
    IF input.kind = "classify"
    THEN [field_type |-> map_python_type_to_azure_search(
                            input.python_type, input.is_collection, input.sample_values),
          column_types |-> <<>>]
    ELSE [field_type |-> "", column_types |-> infer_column_types(input.df)]

\* a call that takes the values out of the evidence it was given
caller_returns_consuming(c) ==
    [c EXCEPT !.pc = "idle",
              !.results = Append(@, caller_outcome(c.input)),
              !.input.sample_values = Some(<<>>),
              !.input.df = <<>>]

\* a call returns: the caller has one more result, its evidence is as it was
caller_returns(c) ==
    [c EXCEPT !.pc = "idle", !.results = Append(@, caller_outcome(c.input))]

-----------------------------------------------------------------------------
(* The callers.  pc names the call about to be made, then the callee that  *)
(* has returned.                                                           *)

InitDeclared ==
    /\ pc = "declared"
    /\ purview_type \in DeclaredTypes
    /\ python_type = "str"
    /\ is_collection = FALSE
    /\ sample_values = None
    /\ df = <<>>
    /\ result = ""
    /\ column_types = <<>>
    /\ column_attrs = <<>>
    /\ columns_info = <<>>
    /\ callers = <<>>
    /\ retrieval = NoRetrieval
    /\ search = NoSearch

InitEvidence ==
    /\ pc = "evidence"
    /\ purview_type = None
    /\ python_type \in PythonTypes
    /\ is_collection \in BOOLEAN
    /\ sample_values \in SamplesFor(python_type)
    /\ df = <<>>
    /\ result = ""
    /\ column_types = <<>>
    /\ column_attrs = <<>>
    /\ columns_info = <<>>
    /\ callers = <<>>
    /\ retrieval = NoRetrieval
    /\ search = NoSearch

InitFrame ==
    /\ pc = "frame"
    /\ purview_type = None
    /\ python_type = "str"
    /\ is_collection = FALSE
    /\ sample_values = None
    /\ df \in Frames
    /\ result = ""
    /\ column_types = <<>>
    /\ column_attrs = <<>>
    /\ columns_info = <<>>
    /\ callers = <<>>
    /\ retrieval = NoRetrieval
    /\ search = NoSearch

InitMetadata ==
    /\ pc = "metadata"
    /\ purview_type = None
    /\ python_type = "str"
    /\ is_collection = FALSE
    /\ sample_values = None
    /\ df = <<>>
    /\ result = ""
    /\ column_types = <<>>
    /\ column_attrs \in Tables
    /\ columns_info = <<>>
    /\ callers = <<>>
    /\ retrieval \in Retrievals
    /\ search = NoSearch

InitConcurrent ==
    /\ pc = "concurrent"
    /\ purview_type = None
    /\ python_type = "str"
    /\ is_collection = FALSE
    /\ sample_values = None
    /\ df = <<>>
    /\ result = ""
    /\ column_types = <<>>
    /\ column_attrs = <<>>
    /\ columns_info = <<>>
    /\ callers \in [1..MaxCallers ->
                      { [given |-> e, input |-> e, pc |-> "idle", results |-> <<>>] :
                          e \in CallerInputs }]
    /\ retrieval = NoRetrieval
    /\ search = NoSearch

InitSearch ==
    /\ pc = "main"
    /\ purview_type = None
    /\ python_type = "str"
    /\ is_collection = FALSE
    /\ sample_values = None
    /\ df = <<>>
    /\ result = ""
    /\ column_types = <<>>
    /\ column_attrs = <<>>
    /\ columns_info = <<>>
    /\ callers = <<>>
    /\ retrieval = NoRetrieval
    /\ search \in { [NoSearch EXCEPT !.response = r] : r \in SearchResponses }

Init ==
    \/ InitDeclared \/ InitEvidence \/ InitFrame \/ InitMetadata \/ InitConcurrent
    \/ InitSearch

\* a caller of purview_get_schema.py maps one declared type
GetSchemaMap ==
    /\ pc = "declared"
    /\ result' = get_schema_map_purview_to_search(purview_type)
    /\ pc' = "get_schema"
    /\ UNCHANGED <<purview_type, python_type, is_collection, sample_values, df,
                   column_types, column_attrs, columns_info, callers, retrieval, search>>

\* a caller of purview_schema_inference.py maps one declared type
InferenceMap ==
    /\ pc = "declared"
    /\ result' = inference_map_purview_to_search(purview_type)
    /\ pc' = "inference"
    /\ UNCHANGED <<purview_type, python_type, is_collection, sample_values, df,
                   column_types, column_attrs, columns_info, callers, retrieval, search>>

\* a caller classifies one piece of evidence
MapPythonType ==
    /\ pc = "evidence"
    /\ result' = map_python_type_to_azure_search(python_type, is_collection,
                                                 sample_values)
    /\ pc' = "classified"
    /\ UNCHANGED <<purview_type, python_type, is_collection, sample_values, df,
                   column_types, column_attrs, columns_info, callers, retrieval, search>>

\* a caller builds the column descriptors of one DataFrame
InferColumnTypes ==
    /\ pc = "frame"
    /\ column_types' = infer_column_types(df)
    /\ pc' = "inferred"
    /\ UNCHANGED <<purview_type, python_type, is_collection, sample_values, df,
                   result, column_attrs, columns_info, callers, retrieval, search>>

\* analyze_table_schema: the columns whose entity can be fetched give the
\* column information; None without any, else the sample of the data source
\* where there is one, else the frame made from the metadata, unless making
\* it raises
AnalyzeTableSchema ==
    /\ pc = "metadata"
    /\ LET info == fetch_columns_info(column_attrs)
       IN  /\ columns_info' = info
           /\ IF Len(info) = 0
              THEN result' = "None" /\ df' = <<>> /\ retrieval' = retrieval
              ELSE /\ retrieval' = [retrieval EXCEPT !.tried = TRUE]
                   /\ IF retrieval.outcome = "sample"
                      THEN result' = "DataFrame" /\ df' = retrieval.sample
                      ELSE IF metadata_raises(info)
                      THEN result' = RaiseAttributeError /\ df' = <<>>
                      ELSE /\ result' = "DataFrame"
                           /\ df' = create_dataframe_from_metadata(info)
    /\ pc' = "analyzed"
    /\ UNCHANGED <<purview_type, python_type, is_collection, sample_values,
                   column_types, column_attrs, callers, search>>

\* the caller of analyze_table_schema describes the columns of the frame it
\* got back
DescribeTable ==
    /\ pc = "analyzed"
    /\ result = "DataFrame"
    /\ column_types' = infer_column_types(df)
    /\ pc' = "described"
    /\ UNCHANGED <<purview_type, python_type, is_collection, sample_values, df,
                   result, column_attrs, columns_info, callers, retrieval, search>>

\* a caller enters _map_python_type_to_azure_search or _infer_column_types
CallerEnters(i) ==
    /\ pc = "concurrent"
    /\ callers[i].pc = "idle"
    /\ Len(callers[i].results) < MaxCalls
    /\ callers' = [callers EXCEPT ![i].pc = "running"]
    /\ UNCHANGED <<pc, purview_type, python_type, is_collection, sample_values, df,
                   result, column_types, column_attrs, columns_info, retrieval, search>>

\* the call of a caller returns
CallerReturns(i) ==
    /\ pc = "concurrent"
    /\ callers[i].pc = "running"
    /\ callers' = [callers EXCEPT ![i] = caller_returns(callers[i])]
    /\ UNCHANGED <<pc, purview_type, python_type, is_collection, sample_values, df,
                   result, column_types, column_attrs, columns_info, retrieval, search>>

NextConcurrent ==
    \E i \in DOMAIN callers : CallerEnters(i) \/ CallerReturns(i)

\* main calls search_data_assets for the first collection
SearchDataAssets ==
    /\ pc = "main"
    /\ search' = [search EXCEPT !.returned = search_data_assets(search.response)]
    /\ pc' = "searched"
    /\ UNCHANGED <<purview_type, python_type, is_collection, sample_values, df,
                   result, column_types, column_attrs, columns_info, callers,
                   retrieval>>

\* main iterates over what search_data_assets returned; iterating over None
\* raises TypeError, which 'except AzureError' does not catch
MainForAssets ==
    /\ pc = "searched"
    /\ search' = IF search.returned = None
                 THEN [search EXCEPT !.outcome = "raise TypeError"]
                 ELSE [search EXCEPT !.outcome = "completed",
                                     !.tables = main_tables(search.returned[1])]
    /\ pc' = "finished"
    /\ UNCHANGED <<purview_type, python_type, is_collection, sample_values, df,
                   result, column_types, column_attrs, columns_info, callers,
                   retrieval>>

NextSearch == SearchDataAssets \/ MainForAssets

NextDeclared == GetSchemaMap \/ InferenceMap

NextMetadata == AnalyzeTableSchema \/ DescribeTable

Next ==
    \/ GetSchemaMap \/ InferenceMap \/ MapPythonType \/ InferColumnTypes
    \/ AnalyzeTableSchema \/ DescribeTable
    \/ NextConcurrent
    \/ SearchDataAssets \/ MainForAssets

SpecDeclared == InitDeclared /\ [][NextDeclared]_vars
SpecEvidence == InitEvidence /\ [][MapPythonType]_vars
SpecFrame == InitFrame /\ [][InferColumnTypes]_vars
SpecMetadata == InitMetadata /\ [][NextMetadata]_vars
SpecConcurrent == InitConcurrent /\ [][NextConcurrent]_vars
SpecSearch == InitSearch /\ [][NextSearch]_vars
Spec == Init /\ [][Next]_vars

-----------------------------------------------------------------------------
(* Vocabulary of the properties.                                           *)

Returned == pc \in {"get_schema", "inference"}

\* the declared type string, lowered, of a state whose purview_type is not None
Declared == lower(purview_type[1])

IsCollectionType(ty) == Len(ty) >= 11 /\ SubSeq(ty, 1, 11) = "Collection("

\* every value of the list lies within [-2147483648, 2147483647]
AllFitInt32(values) ==
    \A i \in 1..Len(values) :
        /\ ~IntLeq(values[i], PyInt(-32769, 65535))
        /\ ~IntLeq(PyInt(32768, 0), values[i])

\* the families of declared types, in the priority order of the specification
Families ==
    << [keys |-> {"char", "varchar", "nvarchar", "text", "ntext", "uniqueidentifier",
                  "string"},
        type |-> EDM_STRING],
       [keys |-> {"bit", "bool", "boolean"}, type |-> EDM_BOOLEAN],
       [keys |-> {"bigint", "int64"}, type |-> EDM_INT64],
       [keys |-> {"tinyint", "smallint", "int"}, type |-> EDM_INT32],
       [keys |-> {"float", "real", "decimal", "numeric", "money", "smallmoney",
                  "double"},
        type |-> EDM_DOUBLE],
       [keys |-> {"date", "time", "datetime", "datetimeoffset"},
        type |-> EDM_DATETIME_OFFSET] >>

\* the families a lowered string has a keyword of; the date/time family counts
\* only for the mapper that enables it
Matching(t) ==
    { i \in 1..Len(Families) :
        /\ AnyIn(Families[i].keys, t)
        /\ (Families[i].type = EDM_DATETIME_OFFSET => pc = "inference") }

Earliest(S) == CHOOSE i \in S : \A j \in S : i <= j

-----------------------------------------------------------------------------
\* C1: every declared type string containing "bigint" (in any letter case) is
\* classified Int64 by map_purview_to_search, never Int32.
C1_BigintIsInt64 ==
    (Returned /\ purview_type # None /\ In("bigint", Declared))
        => result = EDM_INT64

-----------------------------------------------------------------------------
\* C2: a declared type string with keywords of more than one family gets the
\* type of the earliest matching family in the order textual, boolean, 64-bit
\* integer, 32-bit integer, floating/fixed-precision, date/time.
C2_EarliestFamilyWins ==
    (Returned /\ purview_type # None /\ Cardinality(Matching(Declared)) >= 2)
        => result = Families[Earliest(Matching(Declared))].type

-----------------------------------------------------------------------------
\* C3: classification never raises and falls back to String: an absent declared
\* type, a declared type with no family keyword and an unrecognized value type
\* all give Edm.String (Collection(Edm.String) for a collection).
RecognizedTypes ==
    { "str", "object", "int", "np.int32", "np.int64", "float", "np.float64",
      "np.float32", "Decimal", "bool", "datetime", "date" }

C3_TotalWithStringFallback ==
    /\ Returned =>
          /\ result \in AzureSearchDataType
          /\ (purview_type = None \/ Matching(Declared) = {}) => result = EDM_STRING
    /\ pc = "classified" =>
          /\ result \in AzureSearchDataType
          /\ python_type \notin RecognizedTypes =>
                result = IF is_collection THEN COLLECTION_EDM_STRING ELSE EDM_STRING

-----------------------------------------------------------------------------
\* C4 as stated: a scalar integer sample classified by value is Int32 when all
\* its values fit the signed 32-bit range (also when it is empty) and Int64 as
\* soon as one value does not, for every integer type.
SampleList == IF sample_values = None THEN <<>> ELSE sample_values[1]

C4_RangeDecidesEveryIntegerType ==
    (pc = "classified" /\ ~is_collection /\ python_type \in IntegerTypes)
        => result = IF AllFitInt32(SampleList) THEN EDM_INT32 ELSE EDM_INT64

\* C4 amended: the range decides for the types int and np.int32: Int32 when all
\* values fit the signed 32-bit range (also when the sample is empty), Int64 as
\* soon as one value, at any position, does not; the type np.int64 is Int64
\* whatever its values.
C4_RangeDecidesIntAndInt32 ==
    (pc = "classified" /\ ~is_collection) =>
        /\ python_type \in {"int", "np.int32"} =>
              result = IF AllFitInt32(SampleList) THEN EDM_INT32 ELSE EDM_INT64
        /\ python_type = "np.int64" => result = EDM_INT64

\* an out-of-range value between two in-range values has made the column Int64
C4_Witness ==
    /\ pc = "classified"
    /\ python_type = "int"
    /\ ~is_collection
    /\ sample_values = Some(<<IntOf(1), PyInt(32768, 0), IntOf(2)>>)
    /\ result = EDM_INT64

-----------------------------------------------------------------------------
\* C5: _infer_column_types gives a scalar integer column Int32 when all its
\* non-absent values fit the signed 32-bit range and Int64 only when one does
\* not, whatever integer dtype stores the column.
C5_BuilderRangeDecides ==
    pc = "inferred" =>
        \A i \in 1..Len(df) :
            is_integer_dtype(df[i].dtype) =>
                column_types[i].azure_search_type =
                    IF AllFitInt32(dropna(df[i].values)) THEN EDM_INT32 ELSE EDM_INT64

-----------------------------------------------------------------------------
\* C6: for a collection the result is decided by the kind of the element alone:
\* 32-bit integer -> Collection(Int32), wider integer -> Collection(Int64),
\* floating point or fixed decimal -> Collection(Double), date/time ->
\* Collection(DateTimeOffset), anything else -> Collection(String).
ElementKindType(ptype) ==
    CASE ptype \in {"int", "np.int32"} -> COLLECTION_EDM_INT32
      [] ptype = "np.int64" -> COLLECTION_EDM_INT64
      [] ptype \in {"float", "np.float64", "np.float32", "Decimal"} -> COLLECTION_EDM_DOUBLE
      [] ptype \in {"datetime", "date"} -> COLLECTION_EDM_DATETIME_OFFSET
      [] OTHER -> COLLECTION_EDM_STRING

C6_CollectionByElementKind ==
    (pc = "classified" /\ is_collection) => result = ElementKindType(python_type)

-----------------------------------------------------------------------------
\* C7: a collection whose first element is textual is Collection(Edm.String),
\* both in the classifier and in the builder (the first element of the first
\* non-absent container of the column).
FirstPresent(values) ==
    values[CHOOSE i \in 1..Len(values) :
              ~isnull(values[i]) /\ \A j \in 1..(i - 1) : isnull(values[j])]

HasPresent(values) == \E i \in 1..Len(values) : ~isnull(values[i])

TextualCollection(values) ==
    /\ HasPresent(values)
    /\ is_container(FirstPresent(values))
    /\ Len(FirstPresent(values).items) > 0
    /\ FirstPresent(values).items[1].type = "str"

C7_TextualCollection ==
    /\ (pc = "classified" /\ is_collection /\ python_type = "str")
          => result = COLLECTION_EDM_STRING
    /\ pc = "inferred" =>
          \A i \in 1..Len(df) :
              TextualCollection(df[i].values) =>
                  column_types[i].azure_search_type = COLLECTION_EDM_STRING

\* the column [["a","b"], ["c"]] has been classified
C7_Witness ==
    /\ pc = "inferred"
    /\ Len(df) = 1
    /\ df[1].values = <<List(<<Str("a"), Str("b")>>), List(<<Str("c")>>)>>
    /\ column_types[1].azure_search_type = COLLECTION_EDM_STRING

-----------------------------------------------------------------------------
\* C8 as stated: the element type of a collection column is the type of the
\* first element of the first non-empty container among its non-absent values,
\* and is textual only when every container is empty.
Containers(values) == SelectSeq(values, LAMBDA v : ~isnull(v) /\ is_container(v))

NonEmptyContainers(values) ==
    SelectSeq(values, LAMBDA v : ~isnull(v) /\ is_container(v) /\ Len(v.items) > 0)

C8_FirstNonEmptyContainer ==
    pc = "inferred" =>
        \A i \in 1..Len(df) :
            column_types[i].is_collection =>
                column_types[i].python_type =
                    IF Len(NonEmptyContainers(df[i].values)) > 0
                    THEN NonEmptyContainers(df[i].values)[1].items[1].type
                    ELSE "str"

\* C8 amended: the element type of a collection column is the type of the first
\* element of its first non-absent value, and is textual whenever that first
\* container is empty, also when a later container is not.
C8_FirstContainerOnly ==
    pc = "inferred" =>
        \A i \in 1..Len(df) :
            column_types[i].is_collection =>
                column_types[i].python_type =
                    IF Len(FirstPresent(df[i].values).items) > 0
                    THEN FirstPresent(df[i].values).items[1].type
                    ELSE "str"

\* the column [[], [1, 2]] has been classified as a collection of strings
C8_Witness ==
    /\ pc = "inferred"
    /\ Len(df) = 1
    /\ df[1].values = <<List(<<>>), List(<<IntOf(1), IntOf(2)>>)>>
    /\ column_types[1].is_collection
    /\ column_types[1].python_type = "str"
    /\ column_types[1].azure_search_type = COLLECTION_EDM_STRING

-----------------------------------------------------------------------------
\* C9: each column gets one field type, which is a Collection variant exactly
\* when the column is a collection; the declared-type mappers never return a
\* Collection variant.
C9_CollectionIffFlag ==
    /\ Returned => ~IsCollectionType(result)
    /\ pc = "classified" =>
          /\ result \in AzureSearchDataType
          /\ IsCollectionType(result) <=> is_collection
    /\ pc = "inferred" =>
          /\ Len(column_types) = Len(df)
          /\ \A i \in 1..Len(df) :
                /\ column_types[i].azure_search_type \in AzureSearchDataType
                /\ IsCollectionType(column_types[i].azure_search_type)
                      <=> column_types[i].is_collection
                /\ column_types[i].is_collection
                      <=> (HasPresent(df[i].values)
                             /\ is_container(FirstPresent(df[i].values)))

\* a frame with a collection column and a scalar column has been classified
C9_Witness ==
    /\ pc = "inferred"
    /\ Len(df) = 2
    /\ column_types[1].is_collection
    /\ IsCollectionType(column_types[1].azure_search_type)
    /\ ~column_types[2].is_collection
    /\ ~IsCollectionType(column_types[2].azure_search_type)

-----------------------------------------------------------------------------
\* C10: every declared type string containing "nvarchar", "varchar" or "text",
\* in any letter case and with any suffix, is classified String by both
\* mappers.
C10_TextualIsString ==
    (Returned /\ purview_type # None /\ AnyIn({"nvarchar", "varchar", "text"}, Declared))
        => result = EDM_STRING

\* "NVARCHAR(255)" has been classified by purview_get_schema
C10_Witness ==
    /\ pc = "get_schema"
    /\ purview_type = Some("NVARCHAR(255)")
    /\ result = EDM_STRING

-----------------------------------------------------------------------------
\* the lowered string t has a keyword of the i-th family
HasFamily(i, t) == AnyIn(Families[i].keys, t)

\* t has no keyword of a family before the i-th
NoEarlierFamily(i, t) == \A j \in 1..(i - 1) : ~HasFamily(j, t)

\* C11 as stated: a declared type string with one of float, real, decimal,
\* numeric, money, smallmoney, double and no keyword of a higher-priority
\* family (textual, boolean, 64-bit, 32-bit integer) is classified Double by
\* both mappers.
C11_FloatingIsDouble ==
    (Returned /\ purview_type # None /\ HasFamily(5, Declared)
              /\ NoEarlierFamily(5, Declared))
        => result = EDM_DOUBLE

\* C11 amended: such a string is Double in purview_schema_inference for all
\* seven keywords and in purview_get_schema for float, real, decimal, numeric,
\* money and smallmoney; purview_get_schema does not know "double", and a
\* string whose only keyword is "double" falls back to String there.
C11_FloatingIsDoubleExceptDouble ==
    (Returned /\ purview_type # None /\ HasFamily(5, Declared)
              /\ NoEarlierFamily(5, Declared))
        => result =
              IF pc = "get_schema"
                 /\ ~AnyIn(Families[5].keys \ {"double"}, Declared)
              THEN EDM_STRING
              ELSE EDM_DOUBLE

\* "decimal(10,2)" has been classified by purview_get_schema
C11_Witness ==
    /\ pc = "get_schema"
    /\ purview_type = Some("decimal(10,2)")
    /\ result = EDM_DOUBLE

-----------------------------------------------------------------------------
\* C12 as stated: a declared type string with one of bit, bool, boolean and no
\* textual keyword is classified Boolean by both mappers.
C12_BooleanIsBoolean ==
    (Returned /\ purview_type # None /\ HasFamily(2, Declared)
              /\ NoEarlierFamily(2, Declared))
        => result = EDM_BOOLEAN

\* C12 amended: without a textual keyword, purview_get_schema classifies as
\* Boolean exactly the strings containing "bit" ("bool" and "boolean" are not
\* keywords there), and purview_schema_inference classifies as Boolean the
\* strings containing bit, bool or boolean that have no keyword of the integer
\* and floating families, which it tests first.
C12_BooleanPerMapper ==
    (Returned /\ purview_type # None /\ HasFamily(2, Declared)
              /\ NoEarlierFamily(2, Declared))
        => /\ pc = "get_schema" => (result = EDM_BOOLEAN <=> In("bit", Declared))
           /\ pc = "inference" =>
                 (result = EDM_BOOLEAN <=>
                     ~(HasFamily(3, Declared) \/ HasFamily(4, Declared)
                         \/ HasFamily(5, Declared)))

\* "bit" has been classified by purview_schema_inference
C12_Witness ==
    /\ pc = "inference"
    /\ purview_type = Some("bit")
    /\ result = EDM_BOOLEAN

-----------------------------------------------------------------------------
\* C13: date/time detection is per mapper: purview_schema_inference gives
\* DateTimeOffset to every declared type with date, time, datetime or
\* datetimeoffset and no keyword of a higher-priority family;
\* purview_get_schema gives the same strings String and never returns
\* DateTimeOffset.
C13_TemporalPerMapper ==
    /\ (Returned /\ purview_type # None
          /\ AnyIn(Families[6].keys, Declared) /\ NoEarlierFamily(6, Declared))
          => result = IF pc = "inference" THEN EDM_DATETIME_OFFSET ELSE EDM_STRING
    /\ pc = "get_schema" => result # EDM_DATETIME_OFFSET

\* "datetimeoffset" has been classified by purview_schema_inference
C13_Witness ==
    /\ pc = "inference"
    /\ purview_type = Some("datetimeoffset")
    /\ result = EDM_DATETIME_OFFSET

-----------------------------------------------------------------------------
\* C17: _infer_column_types returns one descriptor per column of the frame, in
\* the order of the columns: the i-th descriptor carries the i-th name.
C17_OneDescriptorPerColumn ==
    pc = "inferred" =>
        /\ Len(column_types) = Len(df)
        /\ \A i \in 1..Len(df) : column_types[i].column_name = df[i].name

\* a frame of two columns of different dtypes has been described
C17_Witness ==
    /\ pc = "inferred"
    /\ Len(df) = 2
    /\ df[1].dtype # df[2].dtype
    /\ column_types[1].column_name = "c1"
    /\ column_types[2].column_name = "c2"
    /\ column_types[1].python_type # column_types[2].python_type

-----------------------------------------------------------------------------
\* the rows of a column that hold a value
PresentRows(values) == { i \in 1..Len(values) : ~isnull(values[i]) }

\* C18: the descriptor's nullable is true exactly when some row of the column
\* is absent.
C18_NullableIffAbsentRow ==
    pc = "inferred" =>
        \A i \in 1..Len(df) :
            column_types[i].nullable
                <=> Cardinality(PresentRows(df[i].values)) < Len(df[i].values)

\* a column whose only absent row is not the first has been found nullable
C18_Witness ==
    /\ pc = "inferred"
    /\ Len(df) = 1
    /\ Len(df[1].values) >= 2
    /\ PresentRows(df[1].values) = 1..Len(df[1].values) \ {2}
    /\ column_types[1].nullable

-----------------------------------------------------------------------------
-----------------------------------------------------------------------------
\* the same value, whether held as a numpy scalar or as a Python int
SameValue(a, b) ==
    IF "hi" \in DOMAIN a
    THEN "hi" \in DOMAIN b /\ a.hi = b.hi /\ a.lo = b.lo
    ELSE a = b

\* C20: sample_values holds the first min(10, n) of the n non-absent values of
\* the column, in row order: no absent value and never more than 10.
C20_FirstTenPresentValues ==
    pc = "inferred" =>
        \A c \in 1..Len(df) :
            LET values == df[c].values
                kept == column_types[c].sample_values
                n == Cardinality(PresentRows(values))
            IN  /\ Len(kept) = IF n < 10 THEN n ELSE 10
                /\ \A j \in 1..Len(kept) :
                      /\ ~isnull(kept[j])
                      /\ \E i \in PresentRows(values) :
                            /\ Cardinality({ k \in PresentRows(values) : k <= i }) = j
                            /\ SameValue(kept[j], values[i])

\* a column with an absent first row and more than 10 values has been sampled
C20_Witness ==
    /\ pc = "inferred"
    /\ Len(df) = 1
    /\ Cardinality(PresentRows(df[1].values)) > 10
    /\ isnull(df[1].values[1])
    /\ Len(column_types[1].sample_values) = 10
    /\ column_types[1].sample_values[1] = IntOf(2)

-----------------------------------------------------------------------------
\* the declared-type classification of a lowered type string: the type of the
\* earliest family it has a keyword of, Edm.String without one
FamiliesOf(t) == { i \in 1..Len(Families) : AnyIn(Families[i].keys, t) }

DeclaredClassification(t) ==
    IF FamiliesOf(t) = {} THEN EDM_STRING ELSE Families[Earliest(FamiliesOf(t))].type

\* the descriptors were made from the frame of the metadata-only fallback
MetadataOnly == pc = "described" /\ retrieval.outcome # "sample"

\* the column_info a descriptor of the metadata frame was made from
InfoOf(descriptor) ==
    CHOOSE col \in Range(columns_info) :
        is_named(col) /\ col.name[1] = descriptor.column_name

\* C14: in the metadata-only fallback each descriptor has the declared-type
\* classification of its column's declared type string and no sample values:
\* tinyint, smallint and int give Int32, bigint gives Int64, money, numeric and
\* real give Double.
C14_FallbackUsesDeclaredClassification ==
    MetadataOnly =>
        \A i \in 1..Len(column_types) :
            /\ column_types[i].sample_values = <<>>
            /\ column_types[i].azure_search_type
                  = DeclaredClassification(lower(InfoOf(column_types[i]).data_type[1]))

-----------------------------------------------------------------------------
\* C15: in the metadata-only fallback a descriptor's nullable is the catalog's
\* nullability flag where the catalog has one and true where it has none.
C15_FallbackNullableFromCatalog ==
    MetadataOnly =>
        \A i \in 1..Len(column_types) :
            column_types[i].nullable = InfoOf(column_types[i]).is_nullable[1]

-----------------------------------------------------------------------------
\* C16: building the descriptors never raises, for a frame and for a list of
\* column metadata; a column of the metadata whose declared type is absent or
\* has no family keyword is described as Edm.String.
C16_BuilderIsTotal ==
    /\ pc = "inferred" =>
          \A i \in 1..Len(column_types) :
              column_types[i].azure_search_type \in AzureSearchDataType
    /\ pc = "analyzed" => result # RaiseAttributeError
    /\ MetadataOnly =>
          \A i \in 1..Len(column_types) :
              LET declared == InfoOf(column_types[i]).data_type
              IN  (declared = None \/ FamiliesOf(lower(declared[1])) = {})
                      => column_types[i].azure_search_type = EDM_STRING

-----------------------------------------------------------------------------
\* the 16 wire tokens: Edm.X and Collection(Edm.X) for each of the 8 base types
BaseTypes ==
    { "String", "Int32", "Int64", "Double", "Boolean", "DateTimeOffset",
      "GeographyPoint", "ComplexType" }

SixteenTokens ==
    { "Edm." \o x : x \in BaseTypes } \cup { "Collection(Edm." \o x \o ")" : x \in BaseTypes }

\* C21: the enumeration of field types has exactly 16 members, Edm.X and
\* Collection(Edm.X) for each of the 8 base types, and every classification
\* result is one of them.
C21_SixteenFieldTypes ==
    /\ Cardinality(AzureSearchDataType) = 16
    /\ AzureSearchDataType = SixteenTokens
    /\ pc \in {"get_schema", "inference", "classified"} =>
          (result = RaiseAttributeError \/ result \in SixteenTokens)
    /\ pc \in {"inferred", "described"} =>
          \A i \in 1..Len(column_types) :
              column_types[i].azure_search_type \in SixteenTokens

-----------------------------------------------------------------------------
-----------------------------------------------------------------------------
\* the column entities of the table that could be fetched, in their order
Fetched == SelectSeq(column_attrs, LAMBDA a : ~a.raises)

\* the names of the fetched columns that have one, in their order
FetchedNames ==
    LET named == SelectSeq(Fetched, LAMBDA a : a.name # None)
    IN  [i \in 1..Len(named) |-> named[i].name[1]]

\* C23: analyze_table_schema skips exactly the columns whose details cannot be
\* fetched; without column information it returns None and tries no data
\* source; with a sample it returns the sample; without connection information
\* or without a sample it returns the empty frame of the metadata, never None.
C23_FallbackOrder ==
    pc \in {"analyzed", "described"} =>
        /\ Len(columns_info) = Len(Fetched)
        /\ \A i \in 1..Len(Fetched) :
              /\ columns_info[i].name = Fetched[i].name
              /\ columns_info[i].data_type = Fetched[i].dataType
        /\ Len(Fetched) = 0 => (result = "None" /\ ~retrieval.tried)
        /\ (Len(Fetched) > 0 /\ retrieval.outcome = "sample") =>
              (result = "DataFrame" /\ df = retrieval.sample)
        /\ (Len(Fetched) > 0 /\ retrieval.outcome # "sample") =>
              /\ result = "DataFrame"
              /\ Len(df) = Len(FetchedNames)
              /\ \A i \in 1..Len(df) :
                    df[i].name = FetchedNames[i] /\ df[i].values = <<>>

-----------------------------------------------------------------------------
\* C24: search_data_assets returns a list on every path, the empty list when
\* the search finds no asset or fails; main then completes without an
\* exception, and a column is mapped only when its name and its data_type are
\* both present.
C24_SearchReturnsListAndMainCompletes ==
    /\ pc \in {"searched", "finished"} =>
          /\ search.returned # None
          /\ (search.response.status_code # 200 \/ Len(search.response.value) = 0)
                => search.returned = Some(<<>>)
    /\ pc = "finished" =>
          /\ search.outcome = "completed"
          /\ \A i \in 1..Len(search.tables) :
                \A field \in search.tables[i].search_fields :
                    \E asset \in Range(search.response.value) :
                        /\ asset.id = Some(search.tables[i].guid)
                        /\ \E k \in 1..Len(asset.columns) :
                              /\ asset.columns[k].name = Some(field.name)
                              /\ asset.columns[k].data_type # None

=============================================================================
